---- MODULE Spec2Model ----
(***************************************************************************)
(* Model of the HTTP component of package http (src/cmd/api/main.go,       *)
(* lines 53-190): construction by New, the handler chain built by          *)
(* createHTTPServer, and the lifecycle of Run and of the background        *)
(* goroutine listenAndServe, together with the net/http server they drive. *)
(***************************************************************************)
EXTENDS Integers, Sequences, FiniteSets, TLC

(***************************************************************************)
(* Bounds of the model.                                                    *)
(***************************************************************************)
\* longest option sequence handed to New
MaxOpts == 2
\* most requests in flight at once on one server
MaxInFlight == 1

(***************************************************************************)
(* Program constants (const block, main.go 66-71); durations in seconds.   *)
(***************************************************************************)
httpPort == 50000
httpReadTimeout == 5
httpWriteTimeout == 10
httpIdleTimeout == 120

Nil == "nil"
NoComponent == [none |-> TRUE]
NoServer == [none |-> TRUE]

(***************************************************************************)
(* time.Duration.String for whole seconds, as used by createInfo.          *)
(***************************************************************************)
DurationString(d) ==
    LET h == d \div 3600
        m == (d % 3600) \div 60
        s == d % 60
    IN  IF h > 0 THEN ToString(h) \o "h" \o ToString(m) \o "m" \o ToString(s) \o "s"
        ELSE IF m > 0 THEN ToString(m) \o "m" \o ToString(s) \o "s"
        ELSE ToString(s) \o "s"

(***************************************************************************)
(* Routes.  A Route is (Method, Pattern, Handler, Middlewares); a handler  *)
(* is named by its pattern, a middleware by a string.                      *)
(***************************************************************************)
Route(method, pattern, mws) ==
    [Method |-> method, Pattern |-> pattern, Middlewares |-> mws]

healthCheckRoute == Route("GET", "/health", <<>>)
profilingRoutes == << Route("GET", "/debug/pprof/", <<>>) >>
metricRoute == Route("GET", "/metrics", <<>>)
infoRoute == Route("GET", "/info", <<>>)

\* the routes a caller registers in this model
UserRoute == Route("GET", "/articles", <<"R1", "R2">>)
OtherRoute == Route("GET", "/users", <<>>)

(***************************************************************************)
(* Options.  An OptionFunc takes the Component and returns an error: it     *)
(* mutates the component or fails.                                         *)
(***************************************************************************)
Options ==
    { [kind |-> "secure", cert |-> "cert.pem", key |-> "key.pem"],
      [kind |-> "secure", cert |-> "cert.pem", key |-> ""],
      [kind |-> "middleware", name |-> "A"],
      [kind |-> "middleware", name |-> "B"],
      [kind |-> "route", route |-> UserRoute],
      [kind |-> "route", route |-> OtherRoute],
      [kind |-> "fail", err |-> "option error"] }

\* the options of the construction checks: those above, and options that set the
\* key file alone, the port, the timeouts, or fail with another error
WideOptions ==
    Options \cup
    { [kind |-> "secure", cert |-> "", key |-> "key.pem"],
      [kind |-> "port", port |-> 8080],
      [kind |-> "timeouts", read |-> 90, write |-> 30],
      [kind |-> "fail", err |-> "other error"] }

OptionFails(o) == o.kind = "fail"

ApplyOption(o, c) ==
    CASE o.kind = "secure"     -> [c EXCEPT !.certFile = o.cert, !.keyFile = o.key]
      [] o.kind = "middleware" -> [c EXCEPT !.middlewares = Append(@, o.name)]
      [] o.kind = "route"      -> [c EXCEPT !.routes = Append(@, o.route)]
      [] o.kind = "port"       -> [c EXCEPT !.httpPort = o.port]
      [] o.kind = "timeouts"   -> [c EXCEPT !.httpReadTimeout = o.read,
                                            !.httpWriteTimeout = o.write]
      [] OTHER                 -> c

\* main.go 94-102
DefaultComponent ==
    [ httpPort         |-> httpPort,
      httpReadTimeout  |-> httpReadTimeout,
      httpWriteTimeout |-> httpWriteTimeout,
      routes           |-> <<>>,
      middlewares      |-> <<>>,
      certFile         |-> "",
      keyFile          |-> "",
      info             |-> << >> ]

\* faulty variant of createInfoTLS: one file is enough
createInfoTLS_Either(c) ==
    c.keyFile # "" \/ c.certFile # ""

\* main.go 179-190: info as a function from its keys to their values
createInfoTLS(c) ==
    c.keyFile # "" /\ c.certFile # ""

createInfo(c) ==
    LET base == [k \in {"type", "port", "read-timeout", "write-timeout", "idle-timeout"} |->
                    CASE k = "type"          -> "http"
                      [] k = "port"          -> c.httpPort
                      [] k = "read-timeout"  -> DurationString(c.httpReadTimeout)
                      [] k = "write-timeout" -> DurationString(c.httpWriteTimeout)
                      [] OTHER               -> DurationString(httpIdleTimeout)]
        tls  == [k \in DOMAIN base \cup {"key-file", "cert-file"} |->
                    CASE k = "type"      -> "https"
                      [] k = "key-file"  -> c.keyFile
                      [] k = "cert-file" -> c.certFile
                      [] OTHER           -> base[k]]
    IN  [c EXCEPT !.info = IF createInfoTLS(c) THEN tls ELSE base]

\* faulty variant of ApplyOptions: a failing option is skipped
RECURSIVE ApplyOptions_SkipsFailures(_, _, _)
ApplyOptions_SkipsFailures(oo, i, c) ==
    IF i > Len(oo) THEN [err |-> Nil, c |-> c]
    ELSE IF OptionFails(oo[i]) THEN ApplyOptions_SkipsFailures(oo, i + 1, c)
    ELSE ApplyOptions_SkipsFailures(oo, i + 1, ApplyOption(oo[i], c))

\* main.go 104-109: the options applied left to right, stopping at the first failure
RECURSIVE ApplyOptions(_, _, _)
ApplyOptions(oo, i, c) ==
    IF i > Len(oo) THEN [err |-> Nil, c |-> c]
    ELSE IF OptionFails(oo[i]) THEN [err |-> oo[i].err, c |-> NoComponent]
    ELSE ApplyOptions(oo, i + 1, ApplyOption(oo[i], c))

\* faulty variant of AppendBuiltins: the built-in routes come first
AppendBuiltins_First(c) ==
    [c EXCEPT !.routes = (((<<healthCheckRoute>> \o profilingRoutes)
                            \o <<metricRoute>>) \o <<infoRoute>>) \o @]

\* main.go 111-114
AppendBuiltins(c) ==
    [c EXCEPT !.routes = (((@ \o <<healthCheckRoute>>) \o profilingRoutes)
                            \o <<metricRoute>>) \o <<infoRoute>>]

\* main.go 93-118
New(oo) ==
    LET r == ApplyOptions(oo, 1, DefaultComponent)
    IN  IF r.err # Nil THEN r
        ELSE [err |-> Nil, c |-> createInfo(AppendBuiltins(r.c))]

OptionSeqs == UNION { [1..n -> Options] : n \in 0..MaxOpts }
WideOptionSeqs == UNION { [1..n -> WideOptions] : n \in 0..MaxOpts }

(***************************************************************************)
(* Handlers.  A handler is the sequence of its layers, outermost first:    *)
(* middlewares, the recovery wrapper, and last a terminal layer, the       *)
(* router (with its table of registered routes) or a route's own handler.  *)
(***************************************************************************)
Layer(kind, name, table) == [kind |-> kind, name |-> name, table |-> table]

MwLayer(m) == Layer("mw", m, <<>>)
HandlerLayer(pattern) == Layer("handler", pattern, <<>>)
RouterLayer(table) == Layer("router", "router", table)

\* NewRecoveryMiddleware(): a wrapper that recovers a panic of the handler it wraps
\* and answers 500
NewRecoveryMiddleware == "recovery"

WrapWith(m, f) ==
    IF m = NewRecoveryMiddleware THEN <<Layer("recovery", m, <<>>)>> \o f
    ELSE <<MwLayer(m)>> \o f

\* MiddlewareChain(f, mm...): for i := len(mm)-1; i >= 0; i-- { f = mm[i](f) }
RECURSIVE MiddlewareChainFrom(_, _, _)
MiddlewareChainFrom(f, mm, i) ==
    IF i < 1 THEN f ELSE MiddlewareChainFrom(WrapWith(mm[i], f), mm, i - 1)

MiddlewareChain(f, mm) == MiddlewareChainFrom(f, mm, Len(mm))

\* main.go 156-165: the router's table, one entry per route in registration order
RouteEntry(route) ==
    [ Method  |-> route.Method,
      Pattern |-> route.Pattern,
      h       |-> IF Len(route.Middlewares) > 0
                  THEN MiddlewareChain(<<HandlerLayer(route.Pattern)>>, route.Middlewares)
                  ELSE <<HandlerLayer(route.Pattern)>> ]

RECURSIVE RegisterRoutes(_, _, _)
RegisterRoutes(routes, i, table) ==
    IF i > Len(routes) THEN table
    ELSE RegisterRoutes(routes, i + 1, Append(table, RouteEntry(routes[i])))

\* httprouter panics when a method and pattern are registered a second time
HasDuplicateRoutes(routes) ==
    \E i, j \in 1..Len(routes) :
        i < j /\ routes[i].Method = routes[j].Method /\ routes[i].Pattern = routes[j].Pattern

\* faulty variants of ComposeHandler: the recovery wrapper left out, or applied last
ComposeHandler_NoRecovery(router, middlewares) ==
    MiddlewareChain(router, middlewares)

ComposeHandler_RecoveryOutermost(router, middlewares) ==
    MiddlewareChain(MiddlewareChain(router, middlewares), <<NewRecoveryMiddleware>>)

\* main.go 166-168
ComposeHandler(router, middlewares) ==
    MiddlewareChain(MiddlewareChain(router, <<NewRecoveryMiddleware>>), middlewares)

\* main.go 171: fmt.Sprintf(":%d", c.httpPort)
AddrOf(port) == ":" \o ToString(port)

\* main.go 166-176: the server built around a router holding the given table
ServerWith(c, table) ==
    [ Addr         |-> AddrOf(c.httpPort),
      ReadTimeout  |-> c.httpReadTimeout,
      WriteTimeout |-> c.httpWriteTimeout,
      IdleTimeout  |-> httpIdleTimeout,
      Handler      |-> ComposeHandler(<<RouterLayer(table)>>, c.middlewares) ]

\* main.go 153-177
createHTTPServer(c) ==
    ServerWith(c, RegisterRoutes(c.routes, 1, <<>>))

(***************************************************************************)
(* Serving one request through a handler.  A request names its method and  *)
(* pattern and the layer that panics while handling it ("none", a          *)
(* middleware's name, or "handler" for the route's handler).  The result   *)
(* is the status written ("panic" when the panic leaves the handler), the  *)
(* layers entered, in order, and whether the recovery wrapper recovered    *)
(* (and logged) a panic.                                                   *)
(***************************************************************************)
Request(method, pattern, fault) ==
    [Method |-> method, Pattern |-> pattern, fault |-> fault]

Reply(status, trace, recov) == [status |-> status, trace |-> trace, recovered |-> recov]

\* httprouter: the entry registered for the request's method and pattern, 0 if none
Lookup(table, req) ==
    LET hits == { i \in 1..Len(table) :
                    table[i].Method = req.Method /\ table[i].Pattern = req.Pattern }
    IN  IF hits = {} THEN 0 ELSE CHOOSE i \in hits : \A j \in hits : i <= j

RECURSIVE ServeHTTP(_, _, _)
ServeHTTP(h, i, req) ==
    LET l == h[i] IN
    CASE l.kind = "mw" ->
            IF req.fault = l.name THEN Reply("panic", <<l.name>>, FALSE)
            ELSE LET r == ServeHTTP(h, i + 1, req)
                 IN  Reply(r.status, <<l.name>> \o r.trace, r.recovered)
      [] l.kind = "recovery" ->
            LET r == ServeHTTP(h, i + 1, req)
            IN  IF r.status = "panic"
                THEN Reply("500", <<l.name>> \o r.trace, TRUE)
                ELSE Reply(r.status, <<l.name>> \o r.trace, r.recovered)
      [] l.kind = "router" ->
            LET n == Lookup(l.table, req)
            IN  IF n = 0 THEN Reply("404", <<l.name>>, FALSE)
                ELSE LET r == ServeHTTP(l.table[n].h, 1, req)
                     IN  Reply(r.status, <<l.name>> \o r.trace, r.recovered)
      [] OTHER ->
            IF req.fault = "handler" THEN Reply("panic", <<l.name>>, FALSE)
            ELSE Reply("200", <<l.name>>, FALSE)

(***************************************************************************)
(* State.                                                                  *)
(***************************************************************************)
VARIABLES
    c,            \* the Component New returned, NoComponent when New failed
    newErr,       \* the error New returned
    mutex,        \* the Component's sync.Mutex: "free" or "held"
    ctx,          \* the token given to Run: "live", or its Err() once done
    runPc,        \* where Run is
    runBranch,    \* the case Run's select took: "none", "cancel", "fail"
    runResult,    \* the value Run returned
    shutdownRet,  \* the value srv.Shutdown returned
    srv,          \* the http.Server createHTTPServer built
    router,       \* the table of the router createHTTPServer is filling
    inShutdown,   \* the server's inShutdown flag
    listener,     \* the server's listener: "none", "bound", "accepting", "closed"
    inflight,     \* requests accepted and not yet answered
    bgPc,         \* where the goroutine listenAndServe is
    bgMode,       \* the listen call it is in: "none", "tls", "plain"
    attempts,     \* the listen calls it made, in order
    reported,     \* the values it sent or is sending on chFail, in order
    lastReply,    \* the last request answered and its reply
    recovered     \* whether the recovery wrapper has recovered a panic so far

vars == << c, newErr, mutex, ctx, runPc, runBranch, runResult, shutdownRet, srv,
           router, inShutdown, listener, inflight, bgPc, bgMode, attempts, reported,
           lastReply, recovered >>

runVars == << runPc, runBranch, runResult, shutdownRet >>
srvVars == << inShutdown, listener, inflight >>
bgVars == << bgPc, bgMode, attempts, reported >>
reqVars == << lastReply, recovered >>
cfgVars == << c, newErr >>

NoReply == [req |-> Request("", "", "none"), status |-> "", trace |-> <<>>]

\* the state after New(oo...) for some oo of the given option sequences
InitFrom(seqs) ==
    /\ \E oo \in seqs :
          /\ c = New(oo).c
          /\ newErr = New(oo).err
    /\ mutex = "free"
    /\ ctx = "live"
    /\ runPc = "idle"
    /\ runBranch = "none"
    /\ runResult = "none"
    /\ shutdownRet = "none"
    /\ srv = NoServer
    /\ router = <<>>
    /\ inShutdown = FALSE
    /\ listener = "none"
    /\ inflight = 0
    /\ bgPc = "none"
    /\ bgMode = "none"
    /\ attempts = <<>>
    /\ reported = <<>>
    /\ lastReply = NoReply
    /\ recovered = FALSE

Init == InitFrom(OptionSeqs)

(***************************************************************************)
(* The caller's token: cancelled by the caller, or its deadline passes.    *)
(***************************************************************************)
Cancel ==
    /\ ctx = "live"
    /\ c # NoComponent
    /\ ctx' = "Canceled"
    /\ UNCHANGED << cfgVars, mutex, runVars, srv, router, srvVars, bgVars, reqVars >>

DeadlineExceeded ==
    /\ ctx = "live"
    /\ c # NoComponent
    /\ ctx' = "DeadlineExceeded"
    /\ UNCHANGED << cfgVars, mutex, runVars, srv, router, srvVars, bgVars, reqVars >>

(***************************************************************************)
(* Run, main.go 126-141.                                                   *)
(***************************************************************************)
\* 127: c.Lock()
RunLock ==
    /\ runPc = "idle"
    /\ c # NoComponent
    /\ mutex = "free"
    /\ mutex' = "held"
    /\ runPc' = "locked"
    /\ UNCHANGED << cfgVars, ctx, runBranch, runResult, shutdownRet, srv, router, srvVars,
                    bgVars, reqVars >>

\* 129-130, 155-165: chFail := make(chan error); srv := c.createHTTPServer()
\* registers the next route, and panics out of Run (no deferred Unlock) when the
\* router refuses it
RunRegisterRoute ==
    /\ runPc = "locked"
    /\ Len(router) < Len(c.routes)
    /\ IF HasDuplicateRoutes(SubSeq(c.routes, 1, Len(router) + 1))
       THEN runPc' = "panicked" /\ router' = router
       ELSE runPc' = runPc /\ router' = Append(router, RouteEntry(c.routes[Len(router) + 1]))
    /\ UNCHANGED << cfgVars, mutex, ctx, runBranch, runResult, shutdownRet, srv, srvVars,
                    bgVars, reqVars >>

\* 130, 166-176: with every route registered, createHTTPServer composes the
\* handler and returns the server
RunCreateServer ==
    /\ runPc = "locked"
    /\ Len(router) = Len(c.routes)
    /\ srv' = ServerWith(c, router)
    /\ runPc' = "built"
    /\ UNCHANGED << cfgVars, mutex, ctx, runBranch, runResult, shutdownRet, router,
                    srvVars, bgVars, reqVars >>

\* faulty variant of RunGo: the goroutine is launched before createHTTPServer
\* has run
RunGo_BeforeServer ==
    /\ runPc = "locked"
    /\ bgPc = "none"
    /\ bgPc' = "entry"
    /\ UNCHANGED << cfgVars, mutex, ctx, runVars, srv, router, srvVars, bgMode,
                    attempts, reported, reqVars >>

\* 131: go c.listenAndServe(srv, chFail)
RunGo ==
    /\ runPc = "built"
    /\ bgPc' = "entry"
    /\ runPc' = "launched"
    /\ UNCHANGED << cfgVars, mutex, ctx, runBranch, runResult, shutdownRet, srv, router,
                    srvVars, bgMode, attempts, reported, reqVars >>

\* faulty variant of Unlocked: the mutex is left held
Unlocked_StillHeld == "held"

\* 132: the mutex after c.Unlock()
Unlocked == "free"

\* 132: c.Unlock()
RunUnlock ==
    /\ runPc = "launched"
    /\ mutex' = Unlocked
    /\ runPc' = "select"
    /\ UNCHANGED << cfgVars, ctx, runBranch, runResult, shutdownRet, srv, router, srvVars,
                    bgVars, reqVars >>

\* faulty variant of ListenerAfterShutdown: the listener is left open
ListenerAfterShutdown_LeftOpen(l) == l

\* http.Server.Shutdown, first part: the flag is set and every tracked listener
\* closed (taken as one step: the point at which the shutdown is initiated)
ListenerAfterShutdown(l) == IF l = "accepting" THEN "closed" ELSE l

\* 135-137: case <-ctx.Done(): srv.Shutdown(ctx) is called
RunCtxDone ==
    /\ runPc = "select"
    /\ ctx # "live"
    /\ runBranch' = "cancel"
    /\ inShutdown' = TRUE
    /\ listener' = ListenerAfterShutdown(listener)
    /\ runPc' = "shutdown"
    /\ UNCHANGED << cfgVars, mutex, ctx, runResult, shutdownRet, srv, router, inflight,
                    bgVars, reqVars >>

\* http.Server.Shutdown, its loop: nil once no connection is active, else ctx.Err()
\* as soon as ctx is done
ShutdownOutcome(active, token) == IF active = 0 THEN Nil ELSE token

\* 137: srv.Shutdown(ctx) returns
ShutdownPoll ==
    /\ runPc = "shutdown"
    /\ shutdownRet' = ShutdownOutcome(inflight, ctx)
    /\ runPc' = "shutret"
    /\ UNCHANGED << cfgVars, mutex, ctx, runBranch, runResult, srv, router, srvVars, bgVars,
                    reqVars >>

\* faulty variant of RunReturnShutdown: the outcome of Shutdown is dropped
RunReturnShutdown_DropsOutcome ==
    /\ runPc = "shutret"
    /\ runResult' = Nil
    /\ runPc' = "returned"
    /\ UNCHANGED << cfgVars, mutex, ctx, runBranch, shutdownRet, srv, router, srvVars, bgVars,
                    reqVars >>

\* 137: return srv.Shutdown(ctx)
RunReturnShutdown ==
    /\ runPc = "shutret"
    /\ runResult' = shutdownRet
    /\ runPc' = "returned"
    /\ UNCHANGED << cfgVars, mutex, ctx, runBranch, shutdownRet, srv, router, srvVars, bgVars,
                    reqVars >>

\* faulty variant of ReceivedError: the error is swallowed
ReceivedError_Swallowed(sent) == Nil

\* the value Run returns from "case err := <-chFail"
ReceivedError(sent) == sent[Len(sent)]

\* faulty variant of FailReady: a cancelled token takes priority
FailReady_UnlessCancelled == bgPc = "send" /\ ctx = "live"

\* 138: the case <-chFail of the select is ready when the goroutine is at a send
FailReady == bgPc = "send"

\* faulty variant of RunRecvFail: the server is shut down before the error is
\* returned
RunRecvFail_ShutsDown ==
    /\ runPc = "select"
    /\ FailReady
    /\ runBranch' = "fail"
    /\ runResult' = ReceivedError(reported)
    /\ runPc' = "returned"
    /\ inShutdown' = TRUE
    /\ IF bgMode = "tls"
       THEN /\ bgMode' = "plain"
            /\ bgPc' = "enter"
            /\ attempts' = Append(attempts, "plain")
       ELSE /\ bgMode' = "none"
            /\ bgPc' = "exit"
            /\ attempts' = attempts
    /\ UNCHANGED << cfgVars, mutex, ctx, shutdownRet, srv, router, listener, inflight,
                    reported, reqVars >>

\* 138-139: case err := <-chFail: return err.  chFail is unbuffered: the receive
\* and the goroutine's send happen together, and the goroutine goes on after its
\* send: past line 146 to line 149, past line 150 to its end.
RunRecvFail ==
    /\ runPc = "select"
    /\ FailReady
    /\ runBranch' = "fail"
    /\ runResult' = ReceivedError(reported)
    /\ runPc' = "returned"
    /\ IF bgMode = "tls"
       THEN /\ bgMode' = "plain"
            /\ bgPc' = "enter"
            /\ attempts' = Append(attempts, "plain")
       ELSE /\ bgMode' = "none"
            /\ bgPc' = "exit"
            /\ attempts' = attempts
    /\ UNCHANGED << cfgVars, mutex, ctx, shutdownRet, srv, router, srvVars, reported, reqVars >>

(***************************************************************************)
(* listenAndServe, main.go 143-151, and the net/http calls it makes.       *)
(***************************************************************************)
\* faulty variant of UsesTLS: the certificate file alone decides
UsesTLS_CertOnly(comp) == comp.certFile # ""

\* 144: the goroutine listens with TLS exactly when both files are set
UsesTLS(comp) == comp.certFile # "" /\ comp.keyFile # ""

\* 144-146, 149-150: the first listen call
BgEntry ==
    /\ bgPc = "entry"
    /\ bgMode' = IF UsesTLS(c) THEN "tls" ELSE "plain"
    /\ attempts' = Append(attempts, bgMode')
    /\ bgPc' = "enter"
    /\ UNCHANGED << cfgVars, mutex, ctx, runVars, srv, router, srvVars, reported, reqVars >>

\* the listen call returned err: the goroutine is at "ch <- err" (146 or 150)
BgReturns(err) ==
    /\ reported' = Append(reported, err)
    /\ bgPc' = "send"

\* ListenAndServe[TLS]: if srv.shuttingDown() { return ErrServerClosed }
BgEnter ==
    /\ bgPc = "enter"
    /\ IF inShutdown
       THEN BgReturns("ErrServerClosed")
       ELSE bgPc' = "listen" /\ reported' = reported
    /\ UNCHANGED << cfgVars, mutex, ctx, runVars, srv, router, srvVars, bgMode, attempts,
                    reqVars >>

\* net.Listen("tcp", addr): the port is bound, or the call fails (address in use)
BgListen ==
    /\ bgPc = "listen"
    /\ \/ /\ listener' = "bound"
          /\ bgPc' = IF bgMode = "tls" THEN "cert" ELSE "track"
          /\ reported' = reported
       \/ /\ BgReturns("ErrListen")
          /\ listener' = listener
    /\ UNCHANGED << cfgVars, mutex, ctx, runVars, srv, router, inShutdown, inflight, bgMode,
                    attempts, reqVars >>

\* ServeTLS: tls.LoadX509KeyPair(certFile, keyFile); on failure the deferred
\* ln.Close() of ListenAndServeTLS runs
BgLoadCert ==
    /\ bgPc = "cert"
    /\ \/ /\ bgPc' = "track"
          /\ UNCHANGED << listener, reported >>
       \/ /\ BgReturns("ErrTLS")
          /\ listener' = "closed"
    /\ UNCHANGED << cfgVars, mutex, ctx, runVars, srv, router, inShutdown, inflight, bgMode,
                    attempts, reqVars >>

\* Serve: if !srv.trackListener(&l, true) { return ErrServerClosed }, with the
\* deferred l.Close()
BgTrack ==
    /\ bgPc = "track"
    /\ IF inShutdown
       THEN /\ BgReturns("ErrServerClosed")
            /\ listener' = "closed"
       ELSE /\ bgPc' = "accept"
            /\ listener' = "accepting"
            /\ reported' = reported
    /\ UNCHANGED << cfgVars, mutex, ctx, runVars, srv, router, inShutdown, inflight, bgMode,
                    attempts, reqVars >>

\* Serve's loop: l.Accept() fails because Shutdown closed the listener
BgServeClosed ==
    /\ bgPc = "accept"
    /\ listener = "closed"
    /\ BgReturns("ErrServerClosed")
    /\ UNCHANGED << cfgVars, mutex, ctx, runVars, srv, router, srvVars, bgMode, attempts,
                    reqVars >>

\* Serve's loop: l.Accept() fails for good while the listener is open
BgAcceptError ==
    /\ bgPc = "accept"
    /\ listener = "accepting"
    /\ listener' = "closed"
    /\ BgReturns("ErrAccept")
    /\ UNCHANGED << cfgVars, mutex, ctx, runVars, srv, router, inShutdown, inflight, bgMode,
                    attempts, reqVars >>

\* Serve's loop: a connection is accepted and its request handed to a goroutine
BgAccept ==
    /\ bgPc = "accept"
    /\ listener = "accepting"
    /\ inflight < MaxInFlight
    /\ inflight' = inflight + 1
    /\ UNCHANGED << cfgVars, mutex, ctx, runVars, srv, router, inShutdown, listener, bgVars,
                    reqVars >>

(***************************************************************************)
(* A request in flight is answered by srv.Handler.                         *)
(***************************************************************************)
Requests ==
    { Request("GET", "/articles", f) : f \in {"none", "A", "B", "R1", "handler"} }
        \cup { Request("GET", "/health", f) : f \in {"none", "handler"} }

HandleRequest(req) ==
    /\ inflight > 0
    /\ LET r == ServeHTTP(srv.Handler, 1, req)
       IN  /\ lastReply' = [req |-> req, status |-> r.status, trace |-> r.trace]
           /\ recovered' = (recovered \/ r.recovered)
    /\ inflight' = inflight - 1
    /\ UNCHANGED << cfgVars, mutex, ctx, runVars, srv, router, inShutdown, listener, bgVars >>

(***************************************************************************)
(* Specifications.                                                         *)
(***************************************************************************)
RunStep ==
    \/ RunLock
    \/ RunRegisterRoute
    \/ RunCreateServer
    \/ RunGo
    \/ RunUnlock
    \/ RunCtxDone
    \/ ShutdownPoll
    \/ RunReturnShutdown
    \/ RunRecvFail

BgStep ==
    \/ BgEntry
    \/ BgEnter
    \/ BgListen
    \/ BgLoadCert
    \/ BgTrack
    \/ BgServeClosed

Next ==
    \/ Cancel
    \/ DeadlineExceeded
    \/ RunLock
    \/ RunRegisterRoute
    \/ RunCreateServer
    \/ RunGo
    \/ RunUnlock
    \/ RunCtxDone
    \/ ShutdownPoll
    \/ RunReturnShutdown
    \/ RunRecvFail
    \/ BgEntry
    \/ BgEnter
    \/ BgListen
    \/ BgLoadCert
    \/ BgTrack
    \/ BgServeClosed
    \/ BgAcceptError
    \/ BgAccept
    \/ \E req \in Requests : HandleRequest(req)

Spec == Init /\ [][Next]_vars

\* Construction and set-up alone, over the wider options: New, Run up to its
\* select, and the goroutine's choice of its listen call.
BuildInit == InitFrom(WideOptionSeqs)

BuildNext ==
    \/ RunLock
    \/ RunRegisterRoute
    \/ RunCreateServer
    \/ RunGo
    \/ RunUnlock
    \/ BgEntry

BuildSpec == BuildInit /\ [][BuildNext]_vars

\* The Go scheduler runs every runnable goroutine: Run and listenAndServe each
\* take their next step when one is enabled.
FairSpec == Spec /\ WF_vars(RunStep) /\ WF_vars(BgStep)

(***************************************************************************)
(* Properties.                                                             *)
(***************************************************************************)
RunReturned == runPc = "returned"
TLSMode == c # NoComponent /\ UsesTLS(c)

\* C1: whenever Run has returned, the listener of that Run is stopped or was
\* never started, and it does not start afterwards: in no reachable state has
\* Run returned while the server is accepting connections.
C1_ReturnedMeansStopped ==
    RunReturned => listener # "accepting"

\* C2: with both certFile and keyFile set, the goroutine only ever makes the TLS
\* listen call: one attempt per Run, never a plaintext one.
C2_NoPlaintextAfterTLS ==
    TLSMode => (Len(attempts) <= 1 /\ \A i \in 1..Len(attempts) : attempts[i] = "tls")

\* C3: the goroutine performs or attempts at most one send on chFail.
C3_AtMostOneSend ==
    Len(reported) <= 1

\* C4: once Run has returned, the goroutine is not left blocked on a send on
\* chFail, which nobody reads any more.
C4_NoGoroutineLeak ==
    RunReturned => bgPc # "send"

\* C5: when the listener fails and the token is never cancelled, Run eventually
\* returns, through the error branch, exactly the first error the goroutine
\* reported on chFail.
C5_ListenFailurePropagates ==
    /\ [](runBranch = "fail" => (RunReturned /\ runResult = reported[1]))
    /\ (bgPc = "send" /\ Len(reported) = 1 /\ ~RunReturned)
          ~> (ctx # "live"
                \/ (RunReturned /\ runBranch = "fail" /\ runResult = reported[1]))

C5_Witness ==
    /\ RunReturned
    /\ runBranch = "fail"
    /\ ctx = "live"
    /\ runResult \in {"ErrListen", "ErrTLS"}

\* C6: when the token is cancelled while Run waits and no failure is reported,
\* Run eventually returns, and what the cancel branch returns is what Shutdown
\* returned: nil when nothing was in flight, the token's error otherwise.
C6_CancelReturnsShutdownOutcome ==
    /\ []((RunReturned /\ runBranch = "cancel") =>
            /\ runResult = shutdownRet
            /\ runResult = Nil => inflight = 0
            /\ runResult # Nil => (inflight > 0 \/ lastReply # NoReply) /\ runResult = ctx)
    /\ (runPc = "select" /\ ctx # "live" /\ bgPc # "send") ~> RunReturned

C6_Witness ==
    /\ RunReturned
    /\ runBranch = "cancel"
    /\ reported = <<>>
    /\ listener = "closed"
    /\ runResult = "Canceled"

\* C7: Run returns a shutdown error, abandoning the requests in flight, only
\* when the caller's deadline has passed.
C7_AbandonOnlyAfterDeadline ==
    (RunReturned /\ runBranch = "cancel" /\ runResult # Nil) => ctx = "DeadlineExceeded"

\* C8: once Run has initiated the shutdown, the listener is not accepting and
\* never becomes so, and no further request is accepted.
C8_NoAcceptAfterShutdown ==
    /\ [](inShutdown => listener # "accepting")
    /\ [][inShutdown => (inflight' <= inflight /\ inShutdown')]_vars

\* the shutdown ran before the goroutine bound the port
C8_Witness ==
    /\ inShutdown
    /\ bgPc = "track"
    /\ listener = "bound"

\* the last request panicked in a middleware of Component.middlewares
ComponentMiddlewareFault ==
    /\ lastReply # NoReply
    /\ \E i \in 1..Len(c.middlewares) : c.middlewares[i] = lastReply.req.fault

Registered(req) ==
    \E i \in 1..Len(c.routes) :
        c.routes[i].Method = req.Method /\ c.routes[i].Pattern = req.Pattern

\* the request panics in the handler of its route or in one of its route's middlewares
RouteFault(req) ==
    \E i \in 1..Len(c.routes) :
        /\ c.routes[i].Method = req.Method
        /\ c.routes[i].Pattern = req.Pattern
        /\ \/ req.fault = "handler"
           \/ \E k \in 1..Len(c.routes[i].Middlewares) : c.routes[i].Middlewares[k] = req.fault

\* C10: a panic in a route handler or in a per-route middleware is answered 500
\* by the recovery wrapper, and a later request without a fault is answered
\* normally.
C10_RoutePanicRecovered ==
    lastReply # NoReply =>
        /\ RouteFault(lastReply.req) => lastReply.status = "500"
        /\ (recovered /\ lastReply.req.fault = "none" /\ Registered(lastReply.req))
              => lastReply.status = "200"

C10_Witness ==
    /\ recovered
    /\ lastReply.req.fault = "none"
    /\ lastReply.status = "200"

\* the route of c registered for the request (the first, as the router keeps it)
RouteOf(req) ==
    c.routes[CHOOSE i \in 1..Len(c.routes) :
                /\ c.routes[i].Method = req.Method
                /\ c.routes[i].Pattern = req.Pattern
                /\ \A j \in 1..(i - 1) : c.routes[j].Pattern # req.Pattern]

\* C11: a request is handled by the component middlewares in their listed order,
\* then the recovery wrapper, then the router, then the matched route's own
\* middlewares in their listed order, then the route's handler; the recovery
\* wrapper is the layer next to the router.
C11_HandlingOrder ==
    /\ srv # NoServer =>
          /\ Len(srv.Handler) = Len(c.middlewares) + 2
          /\ \A i \in 1..Len(c.middlewares) :
                srv.Handler[i].kind = "mw" /\ srv.Handler[i].name = c.middlewares[i]
          /\ srv.Handler[Len(c.middlewares) + 1].kind = "recovery"
          /\ srv.Handler[Len(c.middlewares) + 2].kind = "router"
    /\ (lastReply # NoReply /\ lastReply.req.fault = "none" /\ Registered(lastReply.req)) =>
          lastReply.trace =
              ((c.middlewares \o <<NewRecoveryMiddleware, "router">>)
                  \o RouteOf(lastReply.req).Middlewares)
                  \o <<lastReply.req.Pattern>>

C11_Witness ==
    /\ lastReply # NoReply
    /\ lastReply.req.fault = "none"
    /\ lastReply.status = "200"
    /\ c.middlewares = <<"B", "A">>
    /\ lastReply.trace = <<"B", "A", "recovery", "router", "/health">>

\* C12: info["type"] is "https" exactly when certFile and keyFile are both
\* non-empty and "http" otherwise, also when one alone is set; key-file and
\* cert-file are keys of info exactly when the type is "https".
C12_InfoType ==
    c # NoComponent =>
        LET both == c.certFile # "" /\ c.keyFile # "" IN
        /\ c.info["type"] = (IF both THEN "https" ELSE "http")
        /\ ("key-file" \in DOMAIN c.info) <=> (c.info["type"] = "https")
        /\ ("cert-file" \in DOMAIN c.info) <=> (c.info["type"] = "https")

C12_Witness ==
    /\ c # NoComponent
    /\ c.certFile = ""
    /\ c.keyFile = "key.pem"
    /\ c.info["type"] = "http"
    /\ DOMAIN c.info = {"type", "port", "read-timeout", "write-timeout", "idle-timeout"}

\* the routes the caller's options register, in the order of the options
RECURSIVE CallerRoutes(_)
CallerRoutes(oo) ==
    IF oo = <<>> THEN <<>>
    ELSE IF Head(oo).kind = "route" THEN <<Head(oo).route>> \o CallerRoutes(Tail(oo))
    ELSE CallerRoutes(Tail(oo))

BuiltinPatterns == <<"/health", "/debug/pprof/", "/metrics", "/info">>

\* the option sequences New may have been given to return what it returned
GivenTo(oo) == New(oo).c = c /\ New(oo).err = newErr

\* C13: the routes of a Component New returns are the caller's routes in
\* insertion order followed by the built-in routes health, profiling, metrics,
\* info, each once, and no caller route after a built-in one.
C13_BuiltinsAfterCallerRoutes ==
    (runPc = "idle" /\ c # NoComponent) =>
        \A oo \in WideOptionSeqs :
            GivenTo(oo) =>
                LET n == Len(CallerRoutes(oo)) IN
                /\ Len(c.routes) = n + Len(BuiltinPatterns)
                /\ SubSeq(c.routes, 1, n) = CallerRoutes(oo)
                /\ \A k \in 1..Len(BuiltinPatterns) :
                      /\ c.routes[n + k].Pattern = BuiltinPatterns[k]
                      /\ Cardinality({ i \in 1..Len(c.routes) :
                                         c.routes[i].Pattern = BuiltinPatterns[k] }) = 1

C13_Witness ==
    /\ runPc = "idle"
    /\ c # NoComponent
    /\ Len(c.routes) = 6
    /\ c.routes[1] = OtherRoute
    /\ c.routes[2] = UserRoute
    /\ c.routes[3] = healthCheckRoute

\* what the options of one kind leave in the component, applied left to right
RECURSIVE LastOf(_, _, _)
LastOf(oo, kind, default) ==
    IF oo = <<>> THEN default
    ELSE IF oo[Len(oo)].kind = kind THEN oo[Len(oo)]
    ELSE LastOf(SubSeq(oo, 1, Len(oo) - 1), kind, default)

RECURSIVE MiddlewaresOf(_)
MiddlewaresOf(oo) ==
    IF oo = <<>> THEN <<>>
    ELSE IF Head(oo).kind = "middleware" THEN <<Head(oo).name>> \o MiddlewaresOf(Tail(oo))
    ELSE MiddlewaresOf(Tail(oo))

\* C14: New applies its options left to right; with a failing option it returns
\* the error of the first one and no Component; it returns a Component only
\* when every option succeeded, and then with the built-in routes appended and
\* info computed.
C14_NewAllOrNothing ==
    runPc = "idle" =>
        \A oo \in WideOptionSeqs :
            GivenTo(oo) =>
                LET failing == { i \in 1..Len(oo) : oo[i].kind = "fail" } IN
                IF failing # {}
                THEN /\ c = NoComponent
                     /\ newErr = oo[CHOOSE i \in failing : \A j \in failing : i <= j].err
                ELSE /\ newErr = Nil
                     /\ c # NoComponent
                     /\ c.middlewares = MiddlewaresOf(oo)
                     /\ c.certFile = LastOf(oo, "secure", [cert |-> "", key |-> ""]).cert
                     /\ c.keyFile = LastOf(oo, "secure", [cert |-> "", key |-> ""]).key
                     /\ c.httpPort = LastOf(oo, "port", [port |-> httpPort]).port
                     /\ Len(c.routes) >= Len(BuiltinPatterns)
                     /\ c.routes[Len(c.routes)] = infoRoute
                     /\ "type" \in DOMAIN c.info
                     /\ c.info["port"] = c.httpPort

C14_Witness ==
    /\ runPc = "idle"
    /\ c = NoComponent
    /\ newErr = "other error"

\* C19: the server Run builds agrees with info: its address is the port of
\* info, its read and write timeouts are those info reports, its idle timeout
\* is the constant, and the goroutine starts with the TLS listen call exactly
\* when info["type"] is "https".
C19_ServerAgreesWithInfo ==
    /\ srv # NoServer =>
          /\ srv.Addr = AddrOf(c.info["port"])
          /\ c.info["read-timeout"] = DurationString(srv.ReadTimeout)
          /\ c.info["write-timeout"] = DurationString(srv.WriteTimeout)
          /\ srv.IdleTimeout = httpIdleTimeout
          /\ c.info["idle-timeout"] = "2m0s"
    /\ attempts # <<>> => ((attempts[1] = "tls") <=> (c.info["type"] = "https"))

C19_Witness ==
    /\ srv # NoServer
    /\ srv.Addr = ":8080"
    /\ c.info["read-timeout"] = "5s"
    /\ attempts = <<"tls">>

FirstSendReceived ==
    /\ Len(reported) >= 1
    /\ ~(bgPc = "send" /\ Len(reported) = 1)

\* C16: Run returns through the error branch without having initiated the
\* shutdown; the shutdown is initiated in the cancel branch only; of "shutdown
\* initiated" and "goroutine's error received" exactly one has occurred when Run
\* has returned.
C16_ShutdownOnlyOnCancel ==
    /\ runBranch = "fail" => ~inShutdown
    /\ inShutdown => runBranch = "cancel"
    /\ RunReturned => (inShutdown # FirstSendReceived)

C16_Witness ==
    /\ RunReturned
    /\ runBranch = "fail"
    /\ ~inShutdown
    /\ FirstSendReceived
    /\ runResult = "ErrListen"

\* C17: while Run waits in its select, the cancel branch can be taken exactly
\* when the token is done and the error branch exactly when a send is pending;
\* with both pending both can be taken, neither has priority.
C17_NoPriorityInSelect ==
    runPc = "select" =>
        /\ (ENABLED RunCtxDone) <=> (ctx # "live")
        /\ (ENABLED RunRecvFail) <=> (bgPc = "send")

C17_Witness ==
    /\ runPc = "select"
    /\ ctx # "live"
    /\ bgPc = "send"
    /\ reported = <<"ErrTLS">>

\* C18: the goroutine is launched, and so the listener bound or accepting, only
\* once every route is registered and the server holds the complete handler.
C18_HandlerBuiltBeforeLaunch ==
    (bgPc # "none" \/ listener # "none") =>
        /\ Len(router) = Len(c.routes)
        /\ srv # NoServer
        /\ srv = createHTTPServer(c)
        /\ Len(srv.Handler[Len(srv.Handler)].table) = Len(c.routes)

C18_Witness ==
    /\ listener = "accepting"
    /\ Len(c.routes) = 6
    /\ Len(c.middlewares) = 0
    /\ Len(srv.Handler[2].table) = 6

====
